---- MODULE Spec2Model ----
(***************************************************************************)
(* Tempesta FW, generic connection management (tempesta_fw/connection.c).  *)
(*                                                                         *)
(* The state is the kernel memory the file works on: the sockets with      *)
(* their sk_user_data / sk_destruct fields, the TfwConnection slab, the    *)
(* conn_hooks[] table, the peers' connection lists and the messages with   *)
(* their skb lists.  Every C function is an operator from a "world" record *)
(* (the mutable memory) to the world after the call; an action is one      *)
(* whole upcall or downcall.                                               *)
(***************************************************************************)
EXTENDS Integers, Sequences, FiniteSets, TLC

(* ------------------------------ bounds --------------------------------- *)
NSocks      == 1    \* transport endpoints
MaxMsgs     == 1    \* messages conn_msg_alloc ever hands out
MaxSkbs     == 2    \* segments the transport ever delivers

Socks   == 1..NSocks
\* the slab has one record more than there are sockets, so that it is the
\* callers, not the slab, that keep it to one TfwConnection per socket; the
\* slab may still fail at any allocation
MaxConns == NSocks + 1
ConnIds == 1..MaxConns
MsgIds  == 1..MaxMsgs
SkbIds  == 1..MaxSkbs
\* One client per accepted socket (the 1:1 socket-client mapping of
\* tfw_connection_new_upcall): the client of connection c is peer c.  The
\* server the active-open path connects to is one more peer.
Server  == MaxConns + 1
Peers   == 1..Server
NULL    == 0

(* --------------------------- type tag layout --------------------------- *)
\* The type tag packs the protocol index in its low bits and one bit each
\* for the client and the server direction above them.  The table has
\* TFW_CONN_MAX_PROTOS slots; the index field is two bits wide, so that a
\* tag can name an index the table does not have (what the BUG_ON of
\* tfw_connection_hooks_register tests for).
TFW_CONN_MAX_PROTOS == 2
Conn_Clnt == 4
Conn_Srv  == 8

TypeBits == 4

RECURSIVE BitOrN(_, _, _)
BitOrN(a, b, n) ==
    IF n = 0 THEN 0
    ELSE (IF (a % 2 = 1) \/ (b % 2 = 1) THEN 1 ELSE 0)
         + 2 * BitOrN(a \div 2, b \div 2, n - 1)

RECURSIVE BitAndN(_, _, _)
BitAndN(a, b, n) ==
    IF n = 0 THEN 0
    ELSE (IF (a % 2 = 1) /\ (b % 2 = 1) THEN 1 ELSE 0)
         + 2 * BitAndN(a \div 2, b \div 2, n - 1)

BitOr(a, b)  == BitOrN(a, b, TypeBits)
BitAnd(a, b) == BitAndN(a, b, TypeBits)

\* TFW_CONN_TYPE2IDX(t): the index macro strips the direction bits.
TFW_CONN_TYPE2IDX(t) == BitAnd(t, Conn_Clnt - 1)

(* ------------------------------- state --------------------------------- *)
VARIABLES
    conn_hooks,   \* conn_hooks[idx]: the registered hook set, or NULL
    running,      \* module initialisation is over, upcalls are delivered
    sk,           \* struct sock: phase, sk_user_data, sk_destruct, SOCK_DBG
    conn,         \* the TfwConnection slab
    peer_list,    \* each peer's list of connections
    msg,          \* TfwMsg: state and skb_list
    obs,          \* per connection: what the protocol hooks and the FSM saw
    chain,        \* per socket: calls of the prior destructor P
    nskb,         \* segments delivered so far
    fault,        \* "none", or the kernel oops / BUG that stopped the system
    last          \* the last call: what it returned, the calls it made,
                  \* the endpoint whose connection_drop it vetoed,
                  \* whether it is the connection_drop that follows a
                  \* vetoed connection_drop of the same endpoint, the
                  \* arguments of a tfw_connection_hooks_register, what
                  \* it handed to ss_send, and what the classifier it
                  \* consulted answered

vars == <<conn_hooks, running, sk, conn, peer_list, msg, obs, chain, nskb,
          fault, last>>

UD_NULL     == [kind |-> "null",  val |-> NULL]
UD_Proto(t) == [kind |-> "proto", val |-> t]
UD_Conn(c)  == [kind |-> "conn",  val |-> c]

(* The mutable memory a call works on, the value it returned, the calls  *)
(* it made and what it handed to the transmit path of a socket.          *)
NoTx == [sk |-> NULL, skb_list |-> <<>>]

World == [sk |-> sk, conn |-> conn, peer_list |-> peer_list, msg |-> msg,
          obs |-> obs, chain |-> chain, fault |-> fault, ret |-> "void",
          ptr |-> NULL, calls |-> <<>>, tx |-> NoTx, verdict |-> "none"]

\* the memory an upcall starts from when the classifier it consults
\* (tfw_classify_conn_estab, tfw_classify_conn_close) answers v
Classified(v) == [World EXCEPT !.verdict = v]

\* the call `f` is made: it is appended to the calls of this upcall
Called(w, f) == [w EXCEPT !.calls = Append(@, f)]

Oops(w, why) == [w EXCEPT !.fault = why, !.ret = "oops"]

ZeroConn == [state |-> "unused", type |-> 0, sock |-> NULL, peer |-> NULL,
             msg |-> NULL, sk_destruct |-> "NULL"]
ZeroObs  == [init |-> 0, destruct |-> 0, disp |-> FALSE,
             i_bound |-> FALSE, d_bound |-> FALSE, d_linked |-> FALSE,
             d_alloc |-> FALSE, early |-> FALSE, late |-> FALSE,
             u_alloc |-> FALSE, f_bound |-> FALSE, f_unlinked |-> FALSE]
ZeroMsg  == [state |-> "unused", skb_list |-> <<>>, owner |-> NULL]

\* c is on the list of the peer it names
Linked(w, c) ==
    /\ w.conn[c].peer # NULL
    /\ \E i \in 1..Len(w.peer_list[w.conn[c].peer]) :
           w.peer_list[w.conn[c].peer][i] = c

\* sk_user_data of c's socket is c and c->sock is that socket
Bound(w, c) ==
    /\ w.conn[c].sock # NULL
    /\ w.sk[w.conn[c].sock].user_data = UD_Conn(c)

\* conn_hooks[i]-> : what reading the slot and calling through it does.  A
\* slot the table does not have is read past the end of the array, an empty
\* slot is a NULL pointer to the hook set; the call through either is a
\* kernel oops.
HookFault(i) ==
    IF i >= TFW_CONN_MAX_PROTOS THEN "oob_hook"
    ELSE IF conn_hooks[i] = NULL THEN "null_hook"
    ELSE "none"

FreeConnIds(w) == {c \in ConnIds : w.conn[c].state = "unused"}
FreeMsgIds(w)  == {m \in MsgIds : w.msg[m].state = "unused"}
Min(S) == CHOOSE x \in S : \A y \in S : x <= y

(* ------------------ protocol plug-ins and collaborators ---------------- *)
\* TfwConnHooks.conn_init: protocol-side setup; records what it was given.
conn_init(w, c) ==
    [Called(w, "conn_init") EXCEPT
              !.obs[c].init = @ + 1,
              !.obs[c].i_bound = Bound(w, c) /\ w.conn[c].state = "live"]

\* TfwConnHooks.conn_destruct: protocol-side cleanup.
conn_destruct(w, c) ==
    [Called(w, "conn_destruct") EXCEPT
              !.obs[c].destruct = @ + 1,
              !.obs[c].d_bound = Bound(w, c),
              !.obs[c].d_linked = Linked(w, c),
              !.obs[c].d_alloc = (w.conn[c].state = "live")]

\* TfwConnHooks.conn_msg_alloc: a fresh, empty message, or NULL.
conn_msg_alloc(w, c, ok) ==
    LET w1 == Called(w, "conn_msg_alloc")
    IN IF ok /\ FreeMsgIds(w) # {}
       THEN LET m == Min(FreeMsgIds(w))
            IN [w1 EXCEPT !.msg[m] = [state |-> "held", skb_list |-> <<>>,
                                      owner |-> c],
                          !.ret = "ptr", !.ptr = m]
       ELSE [w1 EXCEPT !.ret = "NULL", !.ptr = NULL]

\* tfw_gfsm_dispatch: the protocol FSM is fed the data of connection c; it
\* may complete the message in progress, which then leaves the connection.
tfw_gfsm_dispatch(w, c, complete) ==
    LET w1 == [Called(w, "tfw_gfsm_dispatch") EXCEPT
                        !.obs[c].disp = TRUE,
                        !.obs[c].early = @ \/ (w.obs[c].init = 0),
                        !.obs[c].late = @ \/ (w.obs[c].destruct > 0)
                                          \/ (w.conn[c].state # "live"),
                        !.ret = "0"]
        m == w.conn[c].msg
    IN IF complete /\ m # NULL
       THEN [w1 EXCEPT !.msg[m].state = "consumed", !.msg[m].owner = NULL,
                       !.conn[c].msg = NULL]
       ELSE w1

\* tfw_peer_add_conn: the peer takes the connection on its list.
tfw_peer_add_conn(w, p, c) ==
    [w EXCEPT !.conn[c].peer = p, !.peer_list[p] = Append(@, c)]

\* tfw_create_client: a new client is created for the connection and takes
\* it on its list, or the allocation of the client fails.
tfw_create_client(w, c, ok) ==
    IF ok
    THEN [tfw_peer_add_conn(Called(w, "tfw_create_client"), c, c)
            EXCEPT !.ret = "ptr"]
    ELSE [Called(w, "tfw_create_client") EXCEPT !.ret = "NULL"]

RECURSIVE SeqWithout(_, _)
SeqWithout(q, c) ==
    IF q = <<>> THEN <<>>
    ELSE IF Head(q) = c THEN SeqWithout(Tail(q), c)
    ELSE <<Head(q)>> \o SeqWithout(Tail(q), c)

\* tfw_peer_del_conn(c->peer, &c->list): unlink c from its peer's list.
\* It works on the list head inside the record, so the record has to be
\* allocated still.
tfw_peer_del_conn(w, p, c) ==
    IF p = NULL
    THEN [Called(w, "tfw_peer_del_conn") EXCEPT
            !.obs[c].u_alloc = (w.conn[c].state = "live")]
    ELSE [Called(w, "tfw_peer_del_conn") EXCEPT
            !.peer_list[p] = SeqWithout(@, c),
            !.obs[c].u_alloc = (w.conn[c].state = "live")]

\* ss_close: the transport closes the endpoint.
ss_close(w, s) == [Called(w, "ss_close") EXCEPT !.sk[s].phase = "closed"]

\* ss_send(sk, &skb_list): the segments of the list are handed, as they are
\* on the list, to the transmit path of the socket.
ss_send(w, s, list) ==
    [Called(w, "ss_send") EXCEPT !.tx = [sk |-> s, skb_list |-> list]]

\* ss_skb_queue_tail
ss_skb_queue_tail(list, skb) == Append(list, skb)

(* ------------------------------ utilities ------------------------------ *)
\* kmem_cache_alloc(GFP_ATOMIC | __GFP_ZERO) may fail at any time.
tfw_connection_alloc(w, type, ok) ==
    IF ok /\ FreeConnIds(w) # {}
    THEN LET c == Min(FreeConnIds(w))
         IN [Called(w, "tfw_connection_alloc") EXCEPT !.conn[c] = [ZeroConn EXCEPT !.state = "live",
                                                   !.type = type],
                      !.ret = "ptr", !.ptr = c]
    ELSE [Called(w, "tfw_connection_alloc") EXCEPT
            !.ret = "NULL", !.ptr = NULL]

\* tfw_connection_free that does not give the record back to conn_cache
tfw_connection_free_Leaks(w, c) == Called(w, "tfw_connection_free")

\* kmem_cache_free; what the socket and the peer lists said of the record
\* when it went back to the slab is noted
tfw_connection_free(w, c) ==
    [Called(w, "tfw_connection_free") EXCEPT
        !.conn[c].state = "freed",
        !.obs[c].f_bound = Bound(w, c),
        !.obs[c].f_unlinked = ~Linked(w, c)]

\* sk->sk_user_data read through an SsProto pointer: SsProto is the head of
\* TfwConnection, so ->type is the type field of whatever is there.
ProtoType(w, ud) ==
    IF ud.kind = "proto" THEN ud.val ELSE w.conn[ud.val].type

(* ------------------------- connection downcalls ------------------------ *)
\* tfw_connection_new that forgets conn->sock = sk
tfw_connection_new_NoBackRef(w0, s, type, destructor, allocOk) ==
    LET w == Called(w0, "tfw_connection_new")
    IN
    IF BitAnd(type, BitOr(Conn_Clnt, Conn_Srv)) = 0
    THEN Oops(w, "BUG_ON")
    ELSE
    LET ud    == w.sk[s].user_data
        type1 == IF ud.kind # "null" THEN BitOr(type, ProtoType(w, ud))
                 ELSE type
        w1    == tfw_connection_alloc(w, type1, allocOk)
        c     == w1.ptr
    IN IF c = NULL THEN w1
       ELSE
       LET w2 == [w1 EXCEPT !.sk[s].user_data = UD_Conn(c)]
           w3 == IF destructor # "NULL"
                 THEN [w2 EXCEPT !.conn[c].sk_destruct = w2.sk[s].sk_destruct,
                                 !.sk[s].sk_destruct = destructor]
                 ELSE w2
           w4 == [w3 EXCEPT !.sk[s].dbg = TRUE]
       IN IF HookFault(TFW_CONN_TYPE2IDX(type1)) # "none"
          THEN Oops(w4, HookFault(TFW_CONN_TYPE2IDX(type1)))
          ELSE [conn_init(w4, c) EXCEPT !.ret = "ptr", !.ptr = c]

\* tfw_connection_new that wires the endpoint before it looks at the
\* result of the allocation
tfw_connection_new_BindsBeforeAlloc(w0, s, type, destructor, allocOk) ==
    LET w == Called(w0, "tfw_connection_new")
    IN
    IF BitAnd(type, BitOr(Conn_Clnt, Conn_Srv)) = 0
    THEN Oops(w, "BUG_ON")
    ELSE
    LET ud    == w.sk[s].user_data
        type1 == IF ud.kind # "null" THEN BitOr(type, ProtoType(w, ud))
                 ELSE type
        w1    == tfw_connection_alloc(w, type1, allocOk)
        c     == w1.ptr
        w2    == [w1 EXCEPT !.sk[s].user_data =
                               IF c = NULL THEN UD_NULL ELSE UD_Conn(c)]
    IN IF c = NULL THEN w2
       ELSE
       LET w3 == IF destructor # "NULL"
                 THEN [w2 EXCEPT !.conn[c].sk_destruct = w2.sk[s].sk_destruct,
                                 !.sk[s].sk_destruct = destructor]
                 ELSE w2
           w4 == [w3 EXCEPT !.conn[c].sock = s, !.sk[s].dbg = TRUE]
       IN IF HookFault(TFW_CONN_TYPE2IDX(type1)) # "none"
          THEN Oops(w4, HookFault(TFW_CONN_TYPE2IDX(type1)))
          ELSE [conn_init(w4, c) EXCEPT !.ret = "ptr", !.ptr = c]

tfw_connection_new(w0, s, type, destructor, allocOk) ==
    LET w == Called(w0, "tfw_connection_new")
    IN
    IF BitAnd(type, BitOr(Conn_Clnt, Conn_Srv)) = 0
    THEN Oops(w, "BUG_ON")
    ELSE
    LET ud    == w.sk[s].user_data
        type1 == IF ud.kind # "null" THEN BitOr(type, ProtoType(w, ud))
                 ELSE type
        w1    == tfw_connection_alloc(w, type1, allocOk)
        c     == w1.ptr
    IN IF c = NULL THEN w1
       ELSE
       LET w2 == [w1 EXCEPT !.sk[s].user_data = UD_Conn(c)]
           w3 == IF destructor # "NULL"
                 THEN [w2 EXCEPT !.conn[c].sk_destruct = w2.sk[s].sk_destruct,
                                 !.sk[s].sk_destruct = destructor]
                 ELSE w2
           w4 == [w3 EXCEPT !.conn[c].sock = s, !.sk[s].dbg = TRUE]
       IN IF HookFault(TFW_CONN_TYPE2IDX(type1)) # "none"
          THEN Oops(w4, HookFault(TFW_CONN_TYPE2IDX(type1)))
          ELSE [conn_init(w4, c) EXCEPT !.ret = "ptr", !.ptr = c]

\* tfw_connection_close that leaves sk->sk_user_data as it is
tfw_connection_close_KeepsUserData(w, s, verdict) ==
    LET ud == w.sk[s].user_data
        c  == ud.val
    IN IF verdict = "TFW_BLOCK" THEN [w EXCEPT !.ret = "-EPERM"]
       ELSE IF ud.kind = "null" THEN Oops(w, "null_deref")
       ELSE IF HookFault(TFW_CONN_TYPE2IDX(ProtoType(w, ud))) # "none"
       THEN Oops(w, HookFault(TFW_CONN_TYPE2IDX(ProtoType(w, ud))))
       ELSE IF ud.kind = "proto" THEN Oops(w, "bad_conn")
       ELSE
       LET w1 == conn_destruct(w, c)
           w2 == tfw_peer_del_conn(w1, w1.conn[c].peer, c)
           w3 == tfw_connection_free(w2, c)
       IN [w3 EXCEPT !.ret = "0"]

\* tfw_connection_close that asks the classifier after conn_destruct
tfw_connection_close_DestructsFirst(w, s, verdict) ==
    LET ud == w.sk[s].user_data
        c  == ud.val
    IN IF ud.kind = "null" THEN Oops(w, "null_deref")
       ELSE IF HookFault(TFW_CONN_TYPE2IDX(ProtoType(w, ud))) # "none"
       THEN Oops(w, HookFault(TFW_CONN_TYPE2IDX(ProtoType(w, ud))))
       ELSE IF ud.kind = "proto" THEN Oops(w, "bad_conn")
       ELSE
       LET w1 == conn_destruct(w, c)
       IN IF verdict = "TFW_BLOCK" THEN [w1 EXCEPT !.ret = "-EPERM"]
          ELSE
          LET w2 == tfw_peer_del_conn(w1, w1.conn[c].peer, c)
              w3 == tfw_connection_free(w2, c)
          IN [w3 EXCEPT !.sk[s].user_data = UD_NULL, !.ret = "0"]

\* tfw_connection_close that frees the record before it is done with it
tfw_connection_close_FreesFirst(w, s, verdict) ==
    LET ud == w.sk[s].user_data
        c  == ud.val
    IN IF verdict = "TFW_BLOCK" THEN [w EXCEPT !.ret = "-EPERM"]
       ELSE IF ud.kind = "null" THEN Oops(w, "null_deref")
       ELSE IF HookFault(TFW_CONN_TYPE2IDX(ProtoType(w, ud))) # "none"
       THEN Oops(w, HookFault(TFW_CONN_TYPE2IDX(ProtoType(w, ud))))
       ELSE IF ud.kind = "proto" THEN Oops(w, "bad_conn")
       ELSE
       LET w1 == tfw_connection_free(w, c)
           w2 == conn_destruct(w1, c)
           w3 == tfw_peer_del_conn(w2, w2.conn[c].peer, c)
       IN [w3 EXCEPT !.sk[s].user_data = UD_NULL, !.ret = "0"]

\* tfw_connection_close that leaves out the call of conn_destruct
tfw_connection_close_NoDestruct(w, s, verdict) ==
    LET ud == w.sk[s].user_data
        c  == ud.val
    IN IF verdict = "TFW_BLOCK" THEN [w EXCEPT !.ret = "-EPERM"]
       ELSE IF ud.kind = "null" THEN Oops(w, "null_deref")
       ELSE IF ud.kind = "proto" THEN Oops(w, "bad_conn")
       ELSE
       LET w2 == tfw_peer_del_conn(w, w.conn[c].peer, c)
           w3 == tfw_connection_free(w2, c)
       IN [w3 EXCEPT !.sk[s].user_data = UD_NULL, !.ret = "0"]

tfw_connection_close(w, s, verdict) ==
    LET ud == w.sk[s].user_data
        c  == ud.val
    IN IF verdict = "TFW_BLOCK" THEN [w EXCEPT !.ret = "-EPERM"]
       ELSE IF ud.kind = "null" THEN Oops(w, "null_deref")
       ELSE IF HookFault(TFW_CONN_TYPE2IDX(ProtoType(w, ud))) # "none"
       THEN Oops(w, HookFault(TFW_CONN_TYPE2IDX(ProtoType(w, ud))))
       ELSE IF ud.kind = "proto" THEN Oops(w, "bad_conn")
       ELSE
       LET w1 == conn_destruct(w, c)
           w2 == tfw_peer_del_conn(w1, w1.conn[c].peer, c)
           w3 == tfw_connection_free(w2, c)
       IN [w3 EXCEPT !.sk[s].user_data = UD_NULL, !.ret = "0"]

\* tfw_connection_send that hands the segments over last first
tfw_connection_send_Reversed(w, c, m) ==
    LET RECURSIVE Rev(_)
        Rev(q) == IF q = <<>> THEN <<>> ELSE Append(Rev(Tail(q)), Head(q))
    IN ss_send(w, w.conn[c].sock, Rev(w.msg[m].skb_list))

tfw_connection_send(w, c, m) ==
    ss_send(w, w.conn[c].sock, w.msg[m].skb_list)

(* -------------------------- connection upcalls ------------------------- *)
\* tfw_connection_new_upcall that classifies after it has allocated
tfw_connection_new_upcall_ClassifiesLate(w, s, verdict, allocOk, clientOk) ==
    LET w1 == tfw_connection_new(w, s, Conn_Clnt, "tfw_client_put", allocOk)
    IN IF w1.fault # "none" THEN w1
       ELSE IF verdict = "TFW_BLOCK" THEN [w1 EXCEPT !.ret = "-EPERM"]
       ELSE IF w1.ptr = NULL
       THEN [ss_close(w1, s) EXCEPT !.ret = "-ENOMEM"]
       ELSE
       LET w2 == tfw_create_client(w1, w1.ptr, clientOk)
       IN IF w2.ret = "NULL"
          THEN [ss_close(w2, s) EXCEPT !.ret = "-EINVAL"]
          ELSE [w2 EXCEPT !.ret = "0"]

tfw_connection_new_upcall(w, s, verdict, allocOk, clientOk) ==
    IF verdict = "TFW_BLOCK" THEN [w EXCEPT !.ret = "-EPERM"]
    ELSE
    LET w1 == tfw_connection_new(w, s, Conn_Clnt, "tfw_client_put", allocOk)
    IN IF w1.fault # "none" THEN w1
       ELSE IF w1.ptr = NULL
       THEN [ss_close(w1, s) EXCEPT !.ret = "-ENOMEM"]
       ELSE
       LET w2 == tfw_create_client(w1, w1.ptr, clientOk)
       IN IF w2.ret = "NULL"
          THEN [ss_close(w2, s) EXCEPT !.ret = "-EINVAL"]
          ELSE [w2 EXCEPT !.ret = "0"]

tfw_connection_recv(w, s, complete) ==
    LET ud == w.sk[s].user_data
    IN IF ud.kind = "conn" THEN tfw_gfsm_dispatch(w, ud.val, complete)
       ELSE Oops(w, "bad_conn")

\* tfw_connection_put_skb_to_msg that allocates a message for every segment
tfw_connection_put_skb_to_msg_AllocsAlways(w, ud, skb, allocOk) ==
    IF ud.kind # "conn" THEN Oops(w, "bad_conn")
    ELSE
    LET c  == ud.val
        a  == conn_msg_alloc(w, c, allocOk)
        w1 == [a EXCEPT !.conn[c].msg = a.ptr]
        m  == w1.conn[c].msg
    IN IF HookFault(TFW_CONN_TYPE2IDX(w.conn[c].type)) # "none"
       THEN Oops(w, HookFault(TFW_CONN_TYPE2IDX(w.conn[c].type)))
       ELSE IF m = NULL THEN [w1 EXCEPT !.ret = "-ENOMEM"]
       ELSE [w1 EXCEPT !.msg[m].skb_list = ss_skb_queue_tail(@, skb),
                       !.ret = "0"]

\* tfw_connection_put_skb_to_msg that links a new message and returns
\* without queueing the segment
tfw_connection_put_skb_to_msg_LinksOnly(w, ud, skb, allocOk) ==
    IF ud.kind # "conn" THEN Oops(w, "bad_conn")
    ELSE
    LET c  == ud.val
        w1 == IF w.conn[c].msg = NULL
              THEN LET a == conn_msg_alloc(w, c, allocOk)
                   IN [a EXCEPT !.conn[c].msg = a.ptr]
              ELSE [w EXCEPT !.ret = "ptr", !.ptr = w.conn[c].msg]
        m  == w1.conn[c].msg
    IN IF w.conn[c].msg = NULL
          /\ HookFault(TFW_CONN_TYPE2IDX(w.conn[c].type)) # "none"
       THEN Oops(w, HookFault(TFW_CONN_TYPE2IDX(w.conn[c].type)))
       ELSE IF m = NULL THEN [w1 EXCEPT !.ret = "-ENOMEM"]
       ELSE IF w.conn[c].msg = NULL THEN [w1 EXCEPT !.ret = "0"]
       ELSE [w1 EXCEPT !.msg[m].skb_list = ss_skb_queue_tail(@, skb),
                       !.ret = "0"]

tfw_connection_put_skb_to_msg(w, ud, skb, allocOk) ==
    IF ud.kind # "conn" THEN Oops(w, "bad_conn")
    ELSE
    LET c  == ud.val
        w1 == IF w.conn[c].msg = NULL
              THEN LET a == conn_msg_alloc(w, c, allocOk)
                   IN [a EXCEPT !.conn[c].msg = a.ptr]
              ELSE [w EXCEPT !.ret = "ptr", !.ptr = w.conn[c].msg]
        m  == w1.conn[c].msg
    IN IF w.conn[c].msg = NULL
          /\ HookFault(TFW_CONN_TYPE2IDX(w.conn[c].type)) # "none"
       THEN Oops(w, HookFault(TFW_CONN_TYPE2IDX(w.conn[c].type)))
       ELSE IF m = NULL THEN [w1 EXCEPT !.ret = "-ENOMEM"]
       ELSE [w1 EXCEPT !.msg[m].skb_list = ss_skb_queue_tail(@, skb),
                       !.ret = "0"]

\* tfw_connection_postpone_skb that queues the segment at the head
tfw_connection_postpone_skb_AtHead(w, ud, skb) ==
    IF ud.kind # "conn" THEN Oops(w, "bad_conn")
    ELSE
    LET c == ud.val
        m == w.conn[c].msg
    IN IF m = NULL THEN Oops(w, "null_deref")
       ELSE [w EXCEPT !.msg[m].skb_list = <<skb>> \o @, !.ret = "0"]

tfw_connection_postpone_skb(w, ud, skb) ==
    IF ud.kind # "conn" THEN Oops(w, "bad_conn")
    ELSE
    LET c == ud.val
        m == w.conn[c].msg
    IN IF m = NULL THEN Oops(w, "null_deref")
       ELSE [w EXCEPT !.msg[m].skb_list = ss_skb_queue_tail(@, skb),
                      !.ret = "0"]

(* ---------------------- hook registration (init) ----------------------- *)
\* the hook sets of the protocol modules, by number (NULL is no hook set)
HookSets == {1}
\* the type tags the protocol modules register and pre-bind with
RegTypes == {0, 1, BitOr(Conn_Clnt, 1), TFW_CONN_MAX_PROTOS}
ProtoTags == {1}
\* the type tags and destructors the active-open path passes to new
ActiveTypes == {Conn_Srv, 1}

\* tfw_connection_hooks_register without the test of the slot
tfw_connection_hooks_register_Overwrites(hooks, type) ==
    LET hid == TFW_CONN_TYPE2IDX(type)
    IN IF hid >= TFW_CONN_MAX_PROTOS
       THEN /\ fault' = "BUG_ON"
            /\ UNCHANGED conn_hooks
       ELSE /\ conn_hooks' = [conn_hooks EXCEPT ![hid] = hooks]
            /\ UNCHANGED fault

tfw_connection_hooks_register(hooks, type) ==
    LET hid == TFW_CONN_TYPE2IDX(type)
    IN IF hid >= TFW_CONN_MAX_PROTOS \/ conn_hooks[hid] # NULL
       THEN /\ fault' = "BUG_ON"
            /\ UNCHANGED conn_hooks
       ELSE /\ conn_hooks' = [conn_hooks EXCEPT ![hid] = hooks]
            /\ UNCHANGED fault

\* The socket is destroyed: the kernel calls sk->sk_destruct(sk).  A
\* destructor passed to tfw_connection_new must call the original callback
\* saved in TfwConnection->sk_destruct itself, which it can only find
\* through sk->sk_user_data.
sk_destruct_call(w, s) ==
    LET d  == w.sk[s].sk_destruct
        ud == w.sk[s].user_data
    IN IF d = "P" THEN [w EXCEPT !.chain[s] = @ + 1]
       ELSE IF d = "NULL" THEN w
       ELSE IF /\ ud.kind = "conn"
               /\ w.conn[ud.val].state = "live"
               /\ w.conn[ud.val].sk_destruct = "P"
       THEN [w EXCEPT !.chain[s] = @ + 1]
       ELSE w

(* ------------------------------- actions ------------------------------- *)
Commit(w, op, s) ==
    /\ sk' = w.sk
    /\ conn' = w.conn
    /\ peer_list' = w.peer_list
    /\ msg' = w.msg
    /\ obs' = w.obs
    /\ chain' = w.chain
    /\ fault' = w.fault
    /\ last' = [op |-> op, ret |-> w.ret, calls |-> w.calls,
                veto |-> IF op = "connection_drop" /\ w.ret = "-EPERM"
                         THEN s ELSE NULL,
                retry |-> op = "connection_drop" /\ last.veto = s,
                reg |-> <<>>, tx |-> w.tx, verdict |-> w.verdict]

\* what the transport does with the endpoint once an upcall has returned
Phase(w, s, ph) == [w EXCEPT !.sk[s].phase = ph]

\* the phase the endpoint is in after an upcall that returned 0, or an error
Returned(w, s, done, failed) ==
    Phase(w, s, IF w.ret = "0" THEN done ELSE failed)

Init ==
    /\ conn_hooks = [i \in 0..(TFW_CONN_MAX_PROTOS - 1) |-> NULL]
    /\ running = FALSE
    /\ sk \in [Socks -> {[phase |-> "fresh", user_data |-> ud,
                          sk_destruct |-> "P", dbg |-> FALSE] :
                         ud \in {UD_NULL} \cup {UD_Proto(t) : t \in ProtoTags}}]
    /\ conn = [c \in ConnIds |-> ZeroConn]
    /\ peer_list = [p \in Peers |-> <<>>]
    /\ msg = [m \in MsgIds |-> ZeroMsg]
    /\ obs = [c \in ConnIds |-> ZeroObs]
    /\ chain = [s \in Socks |-> 0]
    /\ nskb = 0
    /\ fault = "none"
    /\ last = [op |-> "none", ret |-> "void", calls |-> <<>>,
               veto |-> NULL, retry |-> FALSE, reg |-> <<>>, tx |-> NoTx,
               verdict |-> "none"]

Register(h, t) ==
    /\ ~running /\ fault = "none"
    /\ tfw_connection_hooks_register(h, t)
    /\ last' = [op |-> "hooks_register", ret |-> "void", calls |-> <<>>,
                veto |-> NULL, retry |-> FALSE, reg |-> <<h, t>>,
                tx |-> NoTx, verdict |-> "none"]
    /\ UNCHANGED <<running, sk, conn, peer_list, msg, obs, chain, nskb>>

Start ==
    /\ ~running /\ fault = "none"
    /\ running' = TRUE
    /\ UNCHANGED <<conn_hooks, sk, conn, peer_list, msg, obs, chain, nskb,
                   fault, last>>

\* Sockets are numbered in the order they are accepted or connected.
Arrives(s) ==
    /\ sk[s].phase = "fresh"
    /\ \A s2 \in Socks : s2 < s => sk[s2].phase # "fresh"

\* passive open: the connection_new upcall on a freshly accepted socket
ConnectionNew(s, verdict, allocOk, clientOk) ==
    /\ running /\ fault = "none"
    /\ Arrives(s)
    /\ Commit(Returned(tfw_connection_new_upcall(Classified(verdict), s,
                                                 verdict, allocOk, clientOk),
                       s, "open", "closed"),
              "connection_new", s)
    /\ UNCHANGED <<conn_hooks, running, nskb>>

\* active open: the server side calls the tfw_connection_new downcall on a
\* connecting socket, without a destructor, and threads the connection on
\* the server's list; it releases the socket if there is no connection.
Connect(s, type, allocOk) ==
    /\ running /\ fault = "none"
    /\ LET w == tfw_connection_new(World, s, type, "NULL", allocOk)
       IN IF w.ret = "ptr"
          THEN Commit(Phase(tfw_peer_add_conn(w, Server, w.ptr), s, "open"),
                      "new", s)
          ELSE Commit(Phase(w, s, "closed"), "new", s)
    /\ UNCHANGED <<conn_hooks, running, nskb>>

ActiveOpen(s, type, allocOk) ==
    /\ Arrives(s)
    /\ Connect(s, type, allocOk)

\* the connection_recv upcall, on any endpoint that was established or
\* closed (the core has to cope with a late segment)
ConnectionRecv(s, complete) ==
    /\ running /\ fault = "none"
    /\ sk[s].phase \in {"open", "closed"}
    /\ Commit(tfw_connection_recv(World, s, complete), "connection_recv", s)
    /\ UNCHANGED <<conn_hooks, running, nskb>>

PutSkbToMsg(s, allocOk) ==
    /\ running /\ fault = "none"
    /\ sk[s].phase = "open"
    /\ nskb < MaxSkbs
    /\ nskb' = nskb + 1
    /\ Commit(tfw_connection_put_skb_to_msg(World, sk[s].user_data, nskb + 1,
                                            allocOk),
              "put_skb_to_msg", s)
    /\ UNCHANGED <<conn_hooks, running>>

PostponeSkb(s) ==
    /\ running /\ fault = "none"
    /\ sk[s].phase = "open"
    /\ nskb < MaxSkbs
    /\ nskb' = nskb + 1
    /\ Commit(tfw_connection_postpone_skb(World, sk[s].user_data, nskb + 1),
              "postpone_skb", s)
    /\ UNCHANGED <<conn_hooks, running>>

\* the connection_drop upcall, on any endpoint that was established or
\* closed; the transport closes the endpoint once the drop went through
ConnectionDrop(s, verdict) ==
    /\ running /\ fault = "none"
    /\ sk[s].phase \in {"open", "closed"}
    /\ Commit(Returned(tfw_connection_close(Classified(verdict), s, verdict),
                       s, "closed", sk[s].phase),
              "connection_drop", s)
    /\ UNCHANGED <<conn_hooks, running, nskb>>

\* the send downcall: a protocol handler sends a message that was
\* accumulated from segments, on the connection of an established endpoint
Send(s, m) ==
    /\ running /\ fault = "none"
    /\ sk[s].phase = "open"
    /\ sk[s].user_data.kind = "conn"
    /\ msg[m].state # "unused"
    /\ Commit(tfw_connection_send(World, sk[s].user_data.val, m),
              "send", s)
    /\ UNCHANGED <<conn_hooks, running, nskb>>

SockDestruct(s) ==
    /\ running /\ fault = "none"
    /\ sk[s].phase = "closed"
    /\ Commit(Phase(sk_destruct_call(World, s), s, "destroyed"),
              "sk_destruct", s)
    /\ UNCHANGED <<conn_hooks, running, nskb>>

Verdicts == {"TFW_PASS", "TFW_BLOCK"}

Next ==
    \/ \E h \in HookSets, t \in RegTypes : Register(h, t)
    \/ Start
    \/ \E s \in Socks, v \in Verdicts, a \in BOOLEAN, k \in BOOLEAN :
          ConnectionNew(s, v, a, k)
    \/ \E s \in Socks, t \in ActiveTypes, a \in BOOLEAN : ActiveOpen(s, t, a)
    \/ \E s \in Socks, k \in BOOLEAN : ConnectionRecv(s, k)
    \/ \E s \in Socks, a \in BOOLEAN : PutSkbToMsg(s, a)
    \/ \E s \in Socks : PostponeSkb(s)
    \/ \E s \in Socks, v \in Verdicts : ConnectionDrop(s, v)
    \/ \E s \in Socks, m \in MsgIds : Send(s, m)
    \/ \E s \in Socks : SockDestruct(s)

Spec == Init /\ [][Next]_vars

(* ------------------- callers that keep to no discipline ---------------- *)
\* tfw_connection_new is an exported downcall: nothing in it keeps a caller
\* from passing both direction bits or an index the table does not have,
\* from pre-binding a tag that carries a direction bit, or from calling it
\* on a socket that already has a connection.  SpecAnyCaller is Spec with
\* such callers added.
WideTypes == {BitOr(Conn_Clnt, Conn_Srv),
              BitOr(Conn_Srv, TFW_CONN_MAX_PROTOS)}
WideTags  == {BitOr(Conn_Srv, 1)}

InitAnyCaller ==
    /\ conn_hooks = [i \in 0..(TFW_CONN_MAX_PROTOS - 1) |-> NULL]
    /\ running = FALSE
    /\ sk \in [Socks -> {[phase |-> "fresh", user_data |-> ud,
                          sk_destruct |-> "P", dbg |-> FALSE] :
                         ud \in {UD_NULL}
                            \cup {UD_Proto(t) : t \in ProtoTags \cup WideTags}}]
    /\ conn = [c \in ConnIds |-> ZeroConn]
    /\ peer_list = [p \in Peers |-> <<>>]
    /\ msg = [m \in MsgIds |-> ZeroMsg]
    /\ obs = [c \in ConnIds |-> ZeroObs]
    /\ chain = [s \in Socks |-> 0]
    /\ nskb = 0
    /\ fault = "none"
    /\ last = [op |-> "none", ret |-> "void", calls |-> <<>>,
               veto |-> NULL, retry |-> FALSE, reg |-> <<>>, tx |-> NoTx,
               verdict |-> "none"]

\* active open with a type tag of the wider set
ActiveOpenWide(s, type, allocOk) ==
    /\ Arrives(s)
    /\ Connect(s, type, allocOk)

\* tfw_connection_new on a socket that is established already
Reconnect(s, type, allocOk) ==
    /\ sk[s].phase = "open"
    /\ Connect(s, type, allocOk)

NextAnyCaller ==
    \/ Next
    \/ \E s \in Socks, t \in WideTypes, a \in BOOLEAN :
          ActiveOpenWide(s, t, a)
    \/ \E s \in Socks, a \in BOOLEAN : Reconnect(s, Conn_Srv, a)

SpecAnyCaller == InitAnyCaller /\ [][NextAnyCaller]_vars

(* ======================= properties of the code ======================== *)
Dir == BitOr(Conn_Clnt, Conn_Srv)

OnSomeList(pl, c) ==
    \E p \in Peers : \E i \in 1..Len(pl[p]) : pl[p][i] = c

Has(calls, f) == \E i \in 1..Len(calls) : calls[i] = f

Count(calls, f) == Cardinality({i \in 1..Len(calls) : calls[i] = f})

IsPrefix(a, b) ==
    /\ Len(a) <= Len(b)
    /\ \A i \in 1..Len(a) : a[i] = b[i]

\* how often segment k is on the messages' segment lists
Occurrences(ms, k) ==
    Cardinality({x \in MsgIds \X SkbIds :
                   /\ x[2] <= Len(ms[x[1]].skb_list)
                   /\ ms[x[1]].skb_list[x[2]] = k})

\* C1: every live connection (allocated by tfw_connection_new, not yet freed
\* by tfw_connection_close) is the sk_user_data of its socket and its sock
\* points back to that socket; a socket whose sk_user_data is a connection
\* holds a live one that points back; and conn_init and conn_destruct, the
\* calls made while the binding is set up and torn down, were handed a
\* connection with both halves of the binding in place.
C1_BindingBothWays ==
    /\ \A c \in ConnIds : conn[c].state = "live" =>
          /\ conn[c].sock \in Socks
          /\ sk[conn[c].sock].user_data = UD_Conn(c)
    /\ \A s \in Socks : sk[s].user_data.kind = "conn" =>
          /\ conn[sk[s].user_data.val].state = "live"
          /\ conn[sk[s].user_data.val].sock = s
    /\ \A c \in ConnIds :
          /\ obs[c].init > 0 => obs[c].i_bound
          /\ obs[c].destruct > 0 => obs[c].d_bound

C1_Witness ==
    \E c \in ConnIds :
        /\ conn[c].state = "live"
        /\ obs[c].init = 1 /\ obs[c].i_bound
        /\ obs[c].disp
        /\ last.op = "connection_drop" /\ last.ret = "-EPERM"

\* C2: conn_init ran exactly once for every established connection and
\* before any dispatch on it; conn_destruct ran exactly once for every
\* connection torn down and for no other; and tfw_gfsm_dispatch was never
\* handed a connection before its conn_init or after its conn_destruct.
C2_InitOnceDestructOnce ==
    \A c \in ConnIds :
        /\ obs[c].init <= 1
        /\ (fault = "none" /\ conn[c].state # "unused") => obs[c].init = 1
        /\ obs[c].disp => obs[c].init = 1
        /\ ~obs[c].early
        /\ obs[c].destruct = (IF conn[c].state = "freed" THEN 1 ELSE 0)
        /\ ~obs[c].late

C2_Witness ==
    \E c \in ConnIds :
        /\ conn[c].state = "freed"
        /\ obs[c].init = 1 /\ obs[c].disp /\ obs[c].destruct = 1
        /\ last.op = "connection_drop" /\ last.ret = "0"

\* C3: a connection_new upcall the classifier blocks returns -EPERM and
\* changes nothing: tfw_connection_new is not called, no connection is
\* allocated, no hook runs, and sk_user_data and sk_destruct of the socket
\* are what they were.
C3_BlockedEstablishment ==
    [][\A s \in Socks : \A a, k \in BOOLEAN :
          (/\ last'.op = "connection_new" /\ last'.verdict = "TFW_BLOCK"
           /\ ConnectionNew(s, "TFW_BLOCK", a, k)) =>
             /\ last'.ret = "-EPERM"
             /\ last'.calls = <<>>
             /\ conn' = conn /\ obs' = obs
             /\ peer_list' = peer_list /\ msg' = msg
             /\ sk'[s].user_data = sk[s].user_data
             /\ sk'[s].sk_destruct = sk[s].sk_destruct
             /\ fault' = "none"]_vars

C3_Witness ==
    /\ last.op = "connection_new" /\ last.ret = "-EPERM"
    /\ \E s \in Socks : /\ sk[s].phase = "closed"
                        /\ sk[s].user_data.kind = "proto"
                        /\ sk[s].sk_destruct = "P"

\* C4: a connection_drop the classifier blocks returns -EPERM without
\* calling conn_destruct and leaves the connection as it was: bound, on its
\* peer's list, allocated, its message untouched, the endpoint in the phase
\* it was in, so that upcalls go on.  A connection_drop the classifier lets
\* through (the first, or one after a veto) then frees the connection,
\* unlinks it, clears sk_user_data and runs conn_destruct once.
C4_VetoedClose ==
    [][\A s \in Socks :
          (last'.op = "connection_drop" /\ sk[s].user_data.kind = "conn") =>
          LET c == sk[s].user_data.val
          IN /\ (/\ last'.verdict = "TFW_BLOCK"
                  /\ ConnectionDrop(s, "TFW_BLOCK")) =>
                  /\ last'.ret = "-EPERM"
                  /\ last'.calls = <<>>
                  /\ sk' = sk /\ conn' = conn /\ obs' = obs
                  /\ peer_list' = peer_list /\ msg' = msg
                  /\ fault' = "none"
             /\ (/\ last'.verdict = "TFW_PASS"
                  /\ ConnectionDrop(s, "TFW_PASS")) =>
                  /\ last'.ret = "0"
                  /\ Count(last'.calls, "conn_destruct") = 1
                  /\ obs'[c].destruct = 1
                  /\ conn'[c].state = "freed"
                  /\ ~OnSomeList(peer_list', c)
                  /\ sk'[s].user_data = UD_NULL]_vars

C4_Witness ==
    /\ last.op = "connection_drop" /\ last.ret = "0" /\ last.retry
    /\ \E c \in ConnIds : conn[c].state = "freed" /\ obs[c].destruct = 1

\* C5: a connection_drop on an endpoint that a connection_drop has already
\* closed (its connection was established, then freed, and its
\* sk_user_data is empty), and that
\* the classifier lets through, returns 0 and does nothing: no hook is
\* called, nothing is freed, no list and no endpoint changes.
C5_CloseOfClosedEndpoint ==
    [][\A s \in Socks :
          (/\ sk[s].user_data = UD_NULL
           /\ \E c \in ConnIds : /\ conn[c].state = "freed"
                                  /\ conn[c].sock = s
                                  /\ conn[c].peer # NULL
           /\ ConnectionDrop(s, "TFW_PASS")) =>
             /\ last'.ret = "0"
             /\ last'.calls = <<>>
             /\ fault' = "none"
             /\ sk' = sk /\ conn' = conn /\ obs' = obs
             /\ peer_list' = peer_list /\ msg' = msg]_vars

\* C6: when the connection_new upcall returns an error, nothing of the
\* attempt is left: sk_user_data does not refer to a connection, sk_destruct
\* is the one the socket had, no connection of the attempt is allocated, and
\* every conn_init of the attempt was undone by a conn_destruct.
C6_FailedEstablishmentRolledBack ==
    [][\A s \in Socks : \A v \in Verdicts : \A a, k \in BOOLEAN :
          (/\ ConnectionNew(s, v, a, k)
           /\ last'.ret \in {"-EPERM", "-ENOMEM", "-EINVAL"}) =>
             /\ sk'[s].user_data.kind # "conn"
             /\ sk'[s].sk_destruct = sk[s].sk_destruct
             /\ \A c \in ConnIds : conn[c].state = "unused" =>
                   /\ conn'[c].state # "live"
                   /\ obs'[c].destruct = obs'[c].init]_vars

\* C7: a prior destructor P that tfw_connection_new captured (it replaced
\* sk_destruct by the destructor it was passed) never runs twice, and it has
\* run exactly once when the endpoint of a connection that was established
\* and then released by a successful connection_drop is gone.
C7_ChainedDestructorOnce ==
    \A s \in Socks :
        /\ chain[s] <= 1
        /\ (/\ sk[s].phase = "destroyed"
            /\ sk[s].sk_destruct = "tfw_client_put"
            /\ \E c \in ConnIds : /\ conn[c].state = "freed"
                                  /\ conn[c].sock = s
                                  /\ conn[c].sk_destruct = "P"
                                  /\ conn[c].peer # NULL)
              => chain[s] = 1

\* C8: a segment put_skb_to_msg or postpone_skb accepted is appended at the
\* tail of the connection's message and nowhere else; no segment is on two
\* lists or twice on one; a list a connection holds only grows at its tail;
\* so every list is in arrival order.
C8_SegmentsInOrder ==
    [][/\ \A s \in Socks :
            (/\ nskb' # nskb /\ last'.ret = "0"
             /\ (\E a \in BOOLEAN : PutSkbToMsg(s, a)) \/ PostponeSkb(s)) =>
               LET c == sk[s].user_data.val
                   m == conn'[c].msg
                   before == IF conn[c].msg = NULL THEN <<>>
                             ELSE msg[conn[c].msg].skb_list
               IN /\ m # NULL
                  /\ conn[c].msg # NULL => m = conn[c].msg
                  /\ msg'[m].skb_list = Append(before, nskb')
                  /\ \A m2 \in MsgIds \ {m} :
                        msg'[m2].skb_list = msg[m2].skb_list
       /\ msg' # msg =>
             /\ \A k \in SkbIds : Occurrences(msg', k) <= 1
             /\ \A m \in MsgIds : msg[m].state = "held" =>
                   IsPrefix(msg[m].skb_list, msg'[m].skb_list)
             /\ \A m \in MsgIds : \A i, j \in 1..Len(msg'[m].skb_list) :
                   i < j => msg'[m].skb_list[i] < msg'[m].skb_list[j]]_vars

C8_Witness ==
    /\ last.op = "postpone_skb" /\ last.ret = "0"
    /\ \E m \in MsgIds : msg[m].state = "held" /\ msg[m].skb_list = <<1, 2>>

\* C9: put_skb_to_msg on a connection without a message whose
\* conn_msg_alloc fails returns -ENOMEM, leaves conn->msg empty and puts the
\* segment on no list; with a message present conn_msg_alloc is not called.
C9_MsgAllocFailure ==
    [][\A s \in Socks : \A a \in BOOLEAN :
          (/\ last'.op = "put_skb_to_msg"
           /\ sk[s].user_data.kind = "conn" /\ PutSkbToMsg(s, a)) =>
             LET c == sk[s].user_data.val
             IN /\ (conn[c].msg = NULL /\ (~a \/ FreeMsgIds(World) = {})) =>
                     /\ last'.ret = "-ENOMEM"
                     /\ Count(last'.calls, "conn_msg_alloc") = 1
                     /\ conn'[c].msg = NULL
                     /\ msg' = msg
                     /\ Occurrences(msg', nskb') = 0
                /\ conn[c].msg # NULL =>
                     ~Has(last'.calls, "conn_msg_alloc")]_vars

C9_Witness ==
    /\ last.op = "put_skb_to_msg" /\ last.ret = "-ENOMEM"
    /\ \E s \in Socks : /\ sk[s].phase = "open"
                        /\ sk[s].user_data.kind = "conn"
                        /\ conn[sk[s].user_data.val].msg = NULL

\* C10 as stated: when the allocation fails, tfw_connection_new returns
\* NULL with the endpoint untouched, and the connection_new upcall closes
\* the endpoint and returns -ENOMEM with sk_user_data empty.
C10_AllocFailureLeavesSlotEmpty ==
    [][\A s \in Socks : \A k \in BOOLEAN :
          ConnectionNew(s, "TFW_PASS", FALSE, k) =>
             /\ last'.ret = "-ENOMEM"
             /\ ~Has(last'.calls, "conn_init")
             /\ Has(last'.calls, "ss_close")
             /\ sk'[s].sk_destruct = sk[s].sk_destruct
             /\ sk'[s].user_data = UD_NULL]_vars

\* C10 amended: when the allocation fails, tfw_connection_new returns NULL
\* with the endpoint untouched (sk_user_data and sk_destruct as they were,
\* conn_init not called), and the connection_new upcall closes the endpoint
\* and returns -ENOMEM with sk_user_data as it was before the upcall: empty,
\* or still the pre-bound protocol tag, never a connection.
C10_AllocFailureLeavesSlotAsItWas ==
    [][\A s \in Socks :
          /\ \A k \in BOOLEAN :
                (/\ last'.op = "connection_new"
                 /\ last'.verdict = "TFW_PASS"
                 /\ ConnectionNew(s, "TFW_PASS", FALSE, k)) =>
                   /\ last'.ret = "-ENOMEM"
                   /\ ~Has(last'.calls, "conn_init")
                   /\ Has(last'.calls, "ss_close")
                   /\ sk'[s].phase = "closed"
                   /\ sk'[s].sk_destruct = sk[s].sk_destruct
                   /\ sk'[s].user_data = sk[s].user_data
                   /\ sk'[s].user_data.kind # "conn"
                   /\ conn' = conn /\ obs' = obs
          /\ \A t \in ActiveTypes :
                (/\ last'.op = "new" /\ BitAnd(t, Dir) # 0
                 /\ ActiveOpen(s, t, FALSE)) =>
                   /\ last'.ret = "NULL"
                   /\ ~Has(last'.calls, "conn_init")
                   /\ sk'[s].sk_destruct = sk[s].sk_destruct
                   /\ sk'[s].user_data = sk[s].user_data
                   /\ conn' = conn /\ obs' = obs]_vars

C10_Witness ==
    /\ last.op = "connection_new" /\ last.ret = "-ENOMEM"
    /\ \E s \in Socks : /\ sk[s].user_data.kind = "proto"
                        /\ sk[s].phase = "closed"

\* C11: every connection tfw_connection_new created and returned (after
\* conn_init) has exactly one of the
\* two direction bits Conn_Clnt and Conn_Srv in its type, whatever type
\* argument with a direction bit it was passed and whatever tag was
\* pre-bound in sk_user_data (of which only the protocol index is merged).
C11_ExactlyOneDirection ==
    \A c \in ConnIds : (conn[c].state # "unused" /\ obs[c].init > 0) =>
        BitAnd(conn[c].type, Dir) \in {Conn_Clnt, Conn_Srv}

\* C12: the protocol index of every connection is below
\* TFW_CONN_MAX_PROTOS and names a filled slot of conn_hooks[], and the
\* core never called through a slot that is empty or beyond the table: not
\* for conn_init in tfw_connection_new, not for conn_destruct in
\* tfw_connection_close, not for conn_msg_alloc in put_skb_to_msg.
C12_HookSlotFilled ==
    /\ fault \notin {"null_hook", "oob_hook"}
    /\ \A c \in ConnIds : conn[c].state # "unused" =>
          /\ TFW_CONN_TYPE2IDX(conn[c].type) < TFW_CONN_MAX_PROTOS
          /\ conn_hooks[TFW_CONN_TYPE2IDX(conn[c].type)] # NULL

\* C13: tfw_connection_hooks_register(hooks, type) installs hooks at
\* TFW_CONN_TYPE2IDX(type) when that index is below TFW_CONN_MAX_PROTOS and
\* the slot is empty, and otherwise stops in its BUG_ON with the table as
\* it was; a filled slot never changes again; and no step but a
\* registration changes the table.
C13_HooksWriteOnce ==
    [][/\ \A h \in HookSets : \A t \in RegTypes :
            (last'.op = "hooks_register" /\ Register(h, t)) =>
               LET hid == TFW_CONN_TYPE2IDX(t)
               IN IF hid < TFW_CONN_MAX_PROTOS /\ conn_hooks[hid] = NULL
                  THEN /\ conn_hooks' = [conn_hooks EXCEPT ![hid] = h]
                       /\ fault' = "none"
                  ELSE /\ conn_hooks' = conn_hooks
                       /\ fault' = "BUG_ON"
       /\ \A i \in 0..(TFW_CONN_MAX_PROTOS - 1) :
            conn_hooks[i] # NULL => conn_hooks'[i] = conn_hooks[i]
       /\ conn_hooks' # conn_hooks =>
            \E h \in HookSets : \E t \in RegTypes : Register(h, t)]_vars

C13_Witness ==
    /\ last.op = "hooks_register" /\ fault = "BUG_ON"
    /\ \A i \in 0..(TFW_CONN_MAX_PROTOS - 1) : conn_hooks[i] # NULL

\* the connections allocated from conn_cache and not given back
Allocated(cn) == {c \in ConnIds : cn[c].state = "live"}

\* C14: a connection_drop the classifier lets through, on an endpoint whose
\* connection is on its peer's list, returns 0 with the connection off that
\* list (the list one shorter, the other lists as they were), the record
\* back in conn_cache (one allocated connection fewer, as many as before
\* the connection was established, which added exactly one) and
\* sk_user_data empty.
C14_CloseReleases ==
    [][/\ \A s \in Socks :
            (/\ last'.op = "connection_drop" /\ last'.verdict = "TFW_PASS"
             /\ sk[s].user_data.kind = "conn"
             /\ Linked(World, sk[s].user_data.val)
             /\ ConnectionDrop(s, "TFW_PASS")) =>
               LET c == sk[s].user_data.val
                   p == conn[c].peer
               IN /\ last'.ret = "0"
                  /\ Len(peer_list'[p]) = Len(peer_list[p]) - 1
                  /\ ~OnSomeList(peer_list', c)
                  /\ \A q \in Peers \ {p} : peer_list'[q] = peer_list[q]
                  /\ conn'[c].state = "freed"
                  /\ Allocated(conn') = Allocated(conn) \ {c}
                  /\ Cardinality(Allocated(conn'))
                       = Cardinality(Allocated(conn)) - 1
                  /\ sk'[s].user_data = UD_NULL
       /\ \A s \in Socks :
            (/\ last'.op \in {"connection_new", "new"}
             /\ sk'[s].user_data.kind = "conn"
             /\ \/ \E v \in Verdicts : \E a, k \in BOOLEAN :
                       ConnectionNew(s, v, a, k)
                \/ \E ty \in ActiveTypes : \E a \in BOOLEAN :
                       ActiveOpen(s, ty, a)) =>
               Cardinality(Allocated(conn'))
                 = Cardinality(Allocated(conn)) + 1]_vars

C14_Witness ==
    /\ last.op = "connection_drop" /\ last.ret = "0"
    /\ Allocated(conn) = {}
    /\ \A p \in Peers : peer_list[p] = <<>>
    /\ \E c \in ConnIds : /\ conn[c].state = "freed"
                           /\ conn[c].peer # NULL
                           /\ sk[conn[c].sock].user_data = UD_NULL

\* C15: no message is left allocated that belonged to a connection which
\* has been torn down: a message that is still held (allocated by
\* conn_msg_alloc, not consumed by the FSM) is the message of a connection
\* that is still allocated.
C15_MsgReleasedWithConn ==
    \A m \in MsgIds : msg[m].state = "held" =>
        /\ msg[m].owner \in ConnIds
        /\ conn[msg[m].owner].state = "live"

\* C16: tfw_connection_send(conn, msg) hands ss_send the socket of the
\* connection and the skb_list of the message as put_skb_to_msg and
\* postpone_skb built it: the same segments in the same (arrival) order,
\* each once; the message and the connection are left as they were.
C16_SendRoundTrip ==
    [][\A s \in Socks : \A m \in MsgIds :
          (last'.op = "send" /\ Send(s, m)) =>
             /\ last'.calls = <<"ss_send">>
             /\ last'.tx.sk = s
             /\ last'.tx.skb_list = msg[m].skb_list
             /\ \A i, j \in 1..Len(last'.tx.skb_list) :
                   i < j => last'.tx.skb_list[i] < last'.tx.skb_list[j]
             /\ msg' = msg /\ conn' = conn /\ sk' = sk
             /\ fault' = "none"]_vars

C16_Witness ==
    /\ last.op = "send"
    /\ last.tx.skb_list = <<1, 2>>
    /\ \E m \in MsgIds : msg[m].state = "held" /\ msg[m].skb_list = <<1, 2>>

\* Where a connection record is in its life, read off the memory: INIT
\* (not allocated), BOUND (allocated and bound, conn_init not done), LIVE,
\* DESTRUCTED (conn_destruct done, not freed), FREED.  CLASSIFIED_OK and
\* DRAINING are inside the upcalls: they are the verdict the classifier
\* gave to the upcall that goes on to bind or to destruct.
Stage(cn, ob, c) ==
    IF cn[c].state = "unused" THEN 0
    ELSE IF cn[c].state = "freed" THEN 6
    ELSE IF ob[c].destruct > 0 THEN 5
    ELSE IF ob[c].init > 0 THEN 3
    ELSE 2

\* The life of connection c, but for who may bind it.  In every state:
\* conn_init was handed a connection that is allocated and bound, and once
\* an upcall has returned an allocated connection is LIVE; conn_destruct
\* ran on a connection that was still allocated and bound, once, and the
\* connection was freed in that same upcall; no socket names a connection
\* that is FREED.
LifeState(c) ==
    /\ obs[c].init > 0 => obs[c].i_bound
    /\ (fault = "none" /\ conn[c].state = "live") => Stage(conn, obs, c) = 3
    /\ Stage(conn, obs, c) > 3 =>
          /\ Stage(conn, obs, c) = 6
          /\ obs[c].init = 1 /\ obs[c].destruct = 1
          /\ obs[c].d_alloc /\ obs[c].d_bound
          /\ \A s \in Socks : sk[s].user_data # UD_Conn(c)

\* a step from stage `was` to stage `now`: never back, and past LIVE only
\* from LIVE, in a connection_drop the classifier let through
LifeMove(was, now) ==
    /\ now >= was
    /\ (was <= 3 /\ now > 3) =>
          /\ was = 3
          /\ last'.op = "connection_drop"
          /\ last'.verdict = "TFW_PASS"

\* In every step: the stage of a connection moves as LifeMove says, and it
\* goes from INIT to stage `to` or further only as `binders` allows; FREED
\* is the end: the record, what the hooks and the FSM saw of it, and a
\* message it owned never change again.
LifeStep(binders, to) ==
    /\ (conn' # conn \/ obs' # obs) =>
          \A c \in ConnIds : (conn'[c] # conn[c] \/ obs'[c] # obs[c]) =>
             /\ conn[c].state # "freed"
             /\ LifeMove(Stage(conn, obs, c), Stage(conn', obs', c))
             /\ (Stage(conn, obs, c) = 0 /\ Stage(conn', obs', c) >= to) =>
                   <<last'.op, last'.verdict>> \in binders
    /\ msg' # msg =>
          \A m \in MsgIds :
             (msg'[m].owner \in ConnIds /\ conn[msg'[m].owner].state = "freed")
                => msg'[m] = msg[m]

\* C17 as stated: every connection goes through INIT, CLASSIFIED_OK, BOUND,
\* LIVE, DRAINING, DESTRUCTED, FREED in this order, none skipped or
\* revisited, and it is bound only in an establishment the classifier
\* allowed.
C17_LifecycleClassified ==
    /\ [](\A c \in ConnIds : LifeState(c))
    /\ [][LifeStep({<<"connection_new", "TFW_PASS">>,
                    <<"new", "TFW_PASS">>}, 3)]_vars

\* C17 amended: the same order, and a connection is bound either by the
\* connection_new upcall after tfw_classify_conn_estab allowed it, or by a
\* tfw_connection_new downcall (active open), which consults no classifier.
C17_LifecycleInOrder ==
    /\ [](\A c \in ConnIds : LifeState(c))
    /\ [][LifeStep({<<"connection_new", "TFW_PASS">>,
                    <<"new", "none">>}, 2)]_vars

C17_Witness ==
    /\ last.op = "connection_drop" /\ last.verdict = "TFW_PASS"
    /\ \E c \in ConnIds :
          /\ Stage(conn, obs, c) = 6
          /\ conn[c].type = Conn_Srv
          /\ obs[c].disp

\* C18: in every state the message a connection holds has at least one
\* segment on its skb_list (put_skb_to_msg queues the segment in the call
\* that links a new message); a segment postpone_skb accepted is at the
\* tail of a message that had segments before; and a postpone_skb on a
\* connection without a message queues the segment nowhere (it stops in a
\* NULL dereference).
C18_MsgNeverEmpty ==
    /\ \A c \in ConnIds : conn[c].msg # NULL =>
          /\ msg[conn[c].msg].state = "held"
          /\ Len(msg[conn[c].msg].skb_list) >= 1
    /\ \A m \in MsgIds : msg[m].state # "unused" =>
          Len(msg[m].skb_list) >= 1
    /\ (last.op = "postpone_skb" /\ last.ret = "0") =>
          \E m \in MsgIds :
             /\ Len(msg[m].skb_list) >= 2
             /\ msg[m].skb_list[Len(msg[m].skb_list)] = nskb
    /\ (last.op = "postpone_skb" /\ last.ret # "0") =>
          /\ fault \in {"null_deref", "bad_conn"}
          /\ Occurrences(msg, nskb) = 0

C18_Witness ==
    /\ last.op = "put_skb_to_msg" /\ last.ret = "0"
    /\ Has(last.calls, "conn_msg_alloc")
    /\ \E c \in ConnIds : /\ conn[c].state = "live"
                           /\ conn[c].msg # NULL
                           /\ msg[conn[c].msg].skb_list = <<nskb>>

\* C19: a connection_drop that succeeds runs conn_destruct, then
\* tfw_peer_del_conn, then tfw_connection_free, then clears sk_user_data:
\* conn_destruct was handed a connection that was bound to its socket, on
\* its peer's list and allocated; the unlink worked on a record that was
\* still allocated; the record went back to the slab off every list and
\* with sk_user_data still naming it, and sk_user_data is empty afterwards;
\* nothing was called on the record after tfw_connection_free.
C19_CloseOrder ==
    /\ \A c \in ConnIds :
          /\ obs[c].destruct > 0 =>
                /\ obs[c].d_bound /\ obs[c].d_alloc
                /\ conn[c].peer # NULL => obs[c].d_linked
          /\ conn[c].state = "freed" =>
                /\ obs[c].destruct = 1
                /\ obs[c].u_alloc
                /\ obs[c].f_unlinked /\ obs[c].f_bound
                /\ sk[conn[c].sock].user_data # UD_Conn(c)
    /\ (last.op = "connection_drop" /\ last.ret = "0") =>
          last.calls = <<"conn_destruct", "tfw_peer_del_conn",
                         "tfw_connection_free">>

C19_Witness ==
    /\ last.op = "connection_drop" /\ last.ret = "0"
    /\ \E c \in ConnIds :
          /\ conn[c].state = "freed" /\ conn[c].peer = Server
          /\ obs[c].d_linked /\ obs[c].u_alloc /\ obs[c].f_bound

\* C20: every connection that is allocated and not freed is the
\* sk_user_data of exactly one socket, whatever the callers did before:
\* tfw_connection_new on a socket that has a connection already, or a
\* connection_new upcall that failed after tfw_connection_new had
\* succeeded.  No allocated connection is out of reach.
C20_NoConnectionLeaked ==
    \A c \in ConnIds : conn[c].state = "live" =>
        Cardinality({s \in Socks : sk[s].user_data = UD_Conn(c)}) = 1

====
